---------------------------- MODULE Spec2Model ----------------------------
(***************************************************************************)
(* Credential handling and token issuance of the job-application backend:  *)
(* Utils.hashPassword / Utils.verifyPassword / Utils.generateAccessToken,  *)
(* the User model's pre-save hook, the /auth and /user routes, and the     *)
(* job-application store next to them.                                     *)
(*                                                                         *)
(* A JavaScript string is a sequence of one-character strings, so that     *)
(* split, join and hex encoding are computed character by character.       *)
(***************************************************************************)
EXTENDS Integers, Sequences, FiniteSets, TLC

VARIABLES
    users,      \* the users collection: the document stored under each id
    created,    \* how many user documents have been created
    resp,       \* the /user or /auth request handled last and its response
    jobs,       \* the jobapplications collection: the document stored under each id
    pending,    \* SpecRace: the POST /user requests in flight, each with its position
    derived,    \* SpecHash: the hashPassword calls made so far, in order
    vcall,      \* SpecHash: the last verifyPassword call and its outcome
    now,        \* Date.now(): the wall clock, in milliseconds
    ticks,      \* how often the clock has moved
    secretKey,  \* process.env.SECRET_KEY
    minted,     \* SpecToken: the token whose life is followed, with its payload and mint time
    tcall       \* SpecToken: the request handled at the current instant and its response

hashVars == <<derived, vcall>>
tokenVars == <<now, ticks, secretKey, minted, tcall>>
storeVars == <<users, created, resp, jobs, pending>>
vars == <<users, created, resp, jobs, pending, derived, vcall, now, ticks, secretKey, minted, tcall>>

-----------------------------------------------------------------------------
(* Bounds of the model *)

\* How many hashPassword calls one behaviour of SpecHash records.
MaxCalls == 2
\* crypto.randomBytes is drawn from MaxRandom + 1 representative byte strings.
MaxRandom == 1
\* How often the clock moves in one behaviour.
MaxTicks == 4
\* How many user documents one behaviour creates.
MaxUsers == 2
\* How many job-application documents one behaviour creates.
MaxJobs == 1

-----------------------------------------------------------------------------
(* Characters and strings *)

HexDigits == <<"0", "1", "2", "3", "4", "5", "6", "7",
               "8", "9", "a", "b", "c", "d", "e", "f">>

HexChars == { HexDigits[i] : i \in 1..16 }

\* The value of an expression that has no value in JavaScript
\* (an array index past the end); no string equals it.
Undefined == <<"undefined">>

\* JavaScript null.
Null == <<"null">>

IsString(v) == v # Undefined /\ v # Null

\* The UTF-8 code of a character of the model's alphabet.
CharCode(c) ==
    CASE c = "$" -> 36
      [] c = " " -> 32
      [] c = "p" -> 112
      [] c = "q" -> 113
      [] c = "a" -> 97
      [] c = "b" -> 98
      [] c = "c" -> 99
      [] c = "d" -> 100
      [] c = "e" -> 101
      [] c = "f" -> 102
      [] OTHER -> 48 + (CHOOSE d \in 0..9 : HexDigits[d + 1] = c)

\* Buffer.toString('hex'): two lowercase hex digits per byte, high nibble first.
ToHex(bytes) ==
    [i \in 1..(2 * Len(bytes)) |->
        IF i % 2 = 1 THEN HexDigits[(bytes[(i + 1) \div 2] \div 16) + 1]
                     ELSE HexDigits[(bytes[i \div 2] % 16) + 1]]

\* The position of the first sep in s, or 0.
IndexOf(s, sep) ==
    IF \E i \in 1..Len(s) : s[i] = sep
    THEN CHOOSE i \in 1..Len(s) : s[i] = sep /\ \A j \in 1..(i - 1) : s[j] # sep
    ELSE 0

\* String.prototype.split(sep) for a one-character sep: every segment between
\* separators, in order; a string without sep is its own single segment.
RECURSIVE Split(_, _)
Split(s, sep) ==
    LET i == IndexOf(s, sep)
    IN IF i = 0 THEN <<s>>
       ELSE <<SubSeq(s, 1, i - 1)>> \o Split(SubSeq(s, i + 1, Len(s)), sep)

\* Array index (0-based in the source): the element, or undefined past the end.
At(arr, k) == IF k + 1 <= Len(arr) THEN arr[k + 1] ELSE Undefined

\* Array.prototype.join(sep) for a one-character sep.
RECURSIVE Join(_, _)
Join(arr, sep) ==
    IF Len(arr) = 0 THEN <<>>
    ELSE IF Len(arr) = 1 THEN arr[1]
    ELSE arr[1] \o <<sep>> \o Join(Tail(arr), sep)

-----------------------------------------------------------------------------
(* Utils.js *)

\* crypto.randomBytes(16)
SaltBytes == 16
\* pbkdf2Sync iterations
Iterations == 2048
\* pbkdf2Sync key length, bytes
KeyLen == 32

\* The byte strings crypto.randomBytes(n) is drawn from: r = 0 is all zeros.
RandomBytes(n) ==
    { [i \in 1..n |-> (171 * r + 16 * r * i) % 256] : r \in 0..MaxRandom }

KdfModulus == 2 ^ 24 - 3

RECURSIVE Absorb(_, _)
Absorb(h, s) ==
    IF Len(s) = 0 THEN h
    ELSE IF Len(s) = 1 THEN (h * 31 + CharCode(s[1])) % KdfModulus
    ELSE LET m == Len(s) \div 2
             left == Absorb(h, SubSeq(s, 1, m))
         IN IF left < KdfModulus          \* always: the left half is folded first
            THEN Absorb(left, SubSeq(s, m + 1, Len(s)))
            ELSE left

\* crypto.pbkdf2Sync(password, salt, iterations, keylen, 'sha512'): a
\* deterministic function of (password, salt, iterations) giving keylen bytes.
\* The digest is a stand-in that is collision-free on the strings of the model
\* (KdfCollisionFree below checks it).
pbkdf2Sync(password, salt, iterations, keylen) ==
    LET h == Absorb(Absorb((iterations * 31 + Len(password)) % KdfModulus, password)
                        * 31 % KdfModulus, salt)
    IN [i \in 1..keylen |->
          (((h \div (256 ^ ((i - 1) % 3))) % 256) + 29 * ((i - 1) \div 3)) % 256]

\* A hashPassword that joins salt and hash with no separator.
hashPasswordNoSeparator(password, randomBytes) ==
    ToHex(randomBytes)
        \o ToHex(pbkdf2Sync(password, ToHex(randomBytes), Iterations, KeyLen))

\* A hashPassword that stores the hash first and the salt second.
hashPasswordSwapped(password, randomBytes) ==
    Join(<<ToHex(pbkdf2Sync(password, ToHex(randomBytes), Iterations, KeyLen)),
           ToHex(randomBytes)>>, "$")

\* A hashPassword whose salt is a process-wide constant.
hashPasswordFixedSalt(password, randomBytes) ==
    LET salt == ToHex([i \in 1..SaltBytes |-> 0])
    IN Join(<<salt, ToHex(pbkdf2Sync(password, salt, Iterations, KeyLen))>>, "$")

\* Utils.hashPassword(password); randomBytes is what crypto.randomBytes(16) drew.
hashPassword(password, randomBytes) ==
    LET salt == ToHex(randomBytes)
        hash == ToHex(pbkdf2Sync(password, salt, Iterations, KeyLen))
    IN Join(<<salt, hash>>, "$")

\* A verifyPassword whose last line tests that a stored hash part is present
\* instead of comparing it with the derived one.
verifyPasswordNoCompare(password, original) ==
    IF ~IsString(original) THEN "throw"
    ELSE LET originalHash == At(Split(original, "$"), 1)
             salt == At(Split(original, "$"), 0)
             hash == ToHex(pbkdf2Sync(password, salt, Iterations, KeyLen))
         IN IF originalHash # Undefined /\ Len(hash) = Len(originalHash)
            THEN "true" ELSE "false"

\* Utils.verifyPassword(password, original): "true", "false", or "throw" when
\* original has no split method (it is not a string).
verifyPassword(password, original) ==
    IF ~IsString(original) THEN "throw"
    ELSE LET originalHash == At(Split(original, "$"), 1)
             salt == At(Split(original, "$"), 0)
             hash == ToHex(pbkdf2Sync(password, salt, Iterations, KeyLen))
         IN IF hash = originalHash THEN "true" ELSE "false"

\* jsonwebtoken's expiresIn: '30min', in seconds
ExpiresIn == 1800

\* A value that is undefined in JavaScript, where the defined values are atoms.
Absent == "<undefined>"

\* The fields of the userObject the routes build for a token payload
\* (firstName, lastName, bio, accessLevel and newUser are copied from the
\* user document the way email is).
UserFields == <<"id", "email", "avatar">>

\* JSON.stringify of a userObject: its key/value pairs in insertion order.
JsonStringify(obj) ==
    [i \in 1..Len(UserFields) |-> <<UserFields[i], obj[UserFields[i]]>>]

\* A JSON.parse that reads every value but the last as the text gives it and
\* the last one as ''.
JsonParseLosesLast(text) ==
    [f \in { text[i][1] : i \in 1..Len(text) } |->
        IF f = text[Len(text)][1] THEN ""
        ELSE text[CHOOSE i \in 1..Len(text) : text[i][1] = f][2]]

\* JSON.parse of that text: the object with those keys and values.
JsonParse(text) ==
    [f \in { text[i][1] : i \in 1..Len(text) } |->
        text[CHOOSE i \in 1..Len(text) : text[i][1] = f][2]]

\* The HMAC of a token body under a key: equal for equal (key, body) only.
Hmac(key, body) == [key |-> key, body |-> body]

NoBody == [user |-> <<>>, iat |-> 0, exp |-> 0]

\* A string that is not three dot-separated parts.
Garbage == [parts |-> 1, body |-> NoBody, sig |-> Hmac("none", NoBody)]

\* The empty string where a token is expected: the header has nothing after
\* its first space.
EmptyToken == [parts |-> 0, body |-> NoBody, sig |-> Hmac("none", NoBody)]

\* authHeader.split(' ')[1]: the second word of the header; undefined and ''
\* are both falsy, and both are the empty token here.
TokenOf(header) == IF Len(header.words) >= 2 THEN header.words[2] ELSE EmptyToken

\* jsonwebtoken.sign(payload, key, {expiresIn}): iat is the clock in whole
\* seconds, exp = iat + expiresIn; throws when the key has no value.
jwtSign(user, key, expiresIn, nowMs) ==
    IF key = Absent THEN [threw |-> TRUE, token |-> Garbage]
    ELSE LET iat == nowMs \div 1000
             body == [user |-> user, iat |-> iat, exp |-> iat + expiresIn]
         IN [threw |-> FALSE,
             token |-> [parts |-> 3, body |-> body, sig |-> Hmac(key, body)]]

\* A generateAccessToken that passes expiresIn as the number 30 (seconds).
generateAccessTokenThirtySeconds(user, key, nowMs) ==
    jwtSign(JsonStringify(user), key, 30, nowMs)

\* A generateAccessToken that signs { user: user.id } instead of { user: user }.
generateAccessTokenIdOnly(user, key, nowMs) ==
    jwtSign(<<<<"id", user.id>>>>, key, ExpiresIn, nowMs)

\* Utils.generateAccessToken(user), with process.env.SECRET_KEY and the clock.
generateAccessToken(user, key, nowMs) ==
    jwtSign(JsonStringify(user), key, ExpiresIn, nowMs)

NoDecoded == [user |-> [id |-> Absent], iat |-> 0, exp |-> 0]

\* jsonwebtoken.verify(token, key, callback): the error handed to the callback
\* ("none" when there is none) and the decoded payload.
jwtVerify(token, key, nowMs) ==
    IF token.parts # 3 THEN [err |-> "jwt malformed", decoded |-> NoDecoded]
    ELSE IF key = Absent
        THEN [err |-> "secret or public key must be provided", decoded |-> NoDecoded]
    ELSE IF token.sig # Hmac(key, token.body)
        THEN [err |-> "invalid signature", decoded |-> NoDecoded]
    ELSE IF nowMs \div 1000 >= token.body.exp
        THEN [err |-> "jwt expired", decoded |-> NoDecoded]
    ELSE [err |-> "none",
          decoded |-> [user |-> JsonParse(token.body.user),
                       iat |-> token.body.iat, exp |-> token.body.exp]]

\* A validate that answers every failure, a missing token included, with 403.
validateNoPrecondition(header, key, nowMs) ==
    LET v == jwtVerify(TokenOf(header), key, nowMs)
    IN IF header.present /\ v.err = "none"
       THEN [status |-> 200, message |-> "", error |-> "none", decoded |-> v.decoded]
       ELSE [status |-> 403, message |-> "Invalid or expired token",
             error |-> v.err, decoded |-> NoDecoded]

\* GET /auth/validate: the status and body answered for an Authorization
\* header, given as whether it is present and its words (split on ' ').
validate(header, key, nowMs) ==
    IF ~header.present
    THEN [status |-> 401, message |-> "Authorization header missing",
          error |-> "none", decoded |-> NoDecoded]
    ELSE IF TokenOf(header) = EmptyToken
    THEN [status |-> 401, message |-> "Token missing",
          error |-> "none", decoded |-> NoDecoded]
    ELSE LET v == jwtVerify(TokenOf(header), key, nowMs)
         IN IF v.err = "none"
            THEN [status |-> 200, message |-> "", error |-> "none", decoded |-> v.decoded]
            ELSE [status |-> 403, message |-> "Invalid or expired token",
                  error |-> v.err, decoded |-> NoDecoded]

-----------------------------------------------------------------------------
(* models/User.js and the /user and /auth routes *)

\* The ObjectIds MongoDB gives new documents, in order of creation.
IdPool == <<"u1", "u2", "u3", "u4">>

Ids == { IdPool[i] : i \in 1..MaxUsers }

\* An id that is no ObjectId: findById rejects it with a CastError.
MalformedId == "zz"

Emails == { "e1", "e2" }

NoUser == [exists |-> FALSE, email |-> "", password |-> <<>>, avatar |-> ""]

\* JavaScript truthiness of a string value: defined and not empty.
Truthy(s) == IsString(s) /\ Len(s) > 0

\* String.prototype.trim for the model's one whitespace character.
RECURSIVE Trim(_)
Trim(s) ==
    IF Len(s) = 0 THEN s
    ELSE IF Head(s) = " " THEN Trim(Tail(s))
    ELSE IF s[Len(s)] = " " THEN Trim(SubSeq(s, 1, Len(s) - 1))
    ELSE s

\* document.set(path, value): Mongoose marks the path modified when the value
\* differs from the one the document holds.
ModifiedBy(doc, path, value) == IF doc[path] # value THEN {path} ELSE {}

\* userSchema.pre('save'): hash the password when it is set and modified.
preSave(doc, modified, randomBytes) ==
    IF Truthy(doc.password) /\ "password" \in modified
    THEN [doc EXCEPT !.password = hashPassword(doc.password, randomBytes)]
    ELSE doc

\* The userObject a route builds from a user document.
userObject(id, doc) == [id |-> id, email |-> doc.email, avatar |-> doc.avatar]

\* User.findOne({email}): the ids of the stored users with that email.
FindByEmail(store, email) ==
    { id \in DOMAIN store : store[id].exists /\ store[id].email = email }

\* User.findById(id): whether the lookup throws (CastError), and the document.
FindById(store, id) ==
    IF id \notin DOMAIN store THEN [threw |-> id = MalformedId, doc |-> NoUser]
    ELSE [threw |-> FALSE, doc |-> store[id]]

\* What a handler leaves behind: the store and the response.
Outcome(store, status, message) == [store |-> store, status |-> status, message |-> message]

\* The userObject of a response that carries none.
NoPayload == [id |-> Absent, email |-> "", avatar |-> ""]

\* A response of POST /auth/signin or POST /user that carries no token.
Refused(store, status, message) ==
    [store |-> store, status |-> status, message |-> message,
     token |-> EmptyToken, user |-> NoPayload]

\* The status of a handler that has not answered yet.
Unanswered == 0

\* POST /user up to the end of its first await: the required fields are
\* checked and User.findOne({email}) looks for a user with the email.
postUserFind(store, body) ==
    IF body.email = Absent \/ ~Truthy(body.password)
    THEN Refused(store, 400, "Missing required fields")
    ELSE IF FindByEmail(store, body.email) # {}
    THEN Refused(store, 409, "Email is already in use")
    ELSE Refused(store, Unanswered, "")

\* A save that inserts the document without consulting the unique index.
postUserSaveNoIndex(store, id, body, randomBytes, key, nowMs) ==
    LET savedUser == preSave([exists |-> TRUE, email |-> body.email,
                              password |-> body.password, avatar |-> ""],
                             {"email", "password", "avatar"}, randomBytes)
        saved == [store EXCEPT ![id] = savedUser]
        signed == generateAccessToken(userObject(id, savedUser), key, nowMs)
    IN [store |-> saved, status |-> 201, message |-> "User created successfully",
        token |-> signed.token, user |-> userObject(id, savedUser)]

\* POST /user from newUserDoc.save() on: the insert is rejected by the unique
\* index on email (E11000) when a stored user has the email by then, which
\* the catch answers with 500; otherwise the document is stored with its
\* password hashed and a token is signed for its userObject.
postUserSave(store, id, body, randomBytes, key, nowMs) ==
    IF FindByEmail(store, body.email) # {}
    THEN Refused(store, 500, "Error during signup")
    ELSE LET newUserDoc == [exists |-> TRUE, email |-> body.email,
                            password |-> body.password, avatar |-> ""]
             savedUser == preSave(newUserDoc, {"email", "password", "avatar"}, randomBytes)
             saved == [store EXCEPT ![id] = savedUser]
             signed == generateAccessToken(userObject(id, savedUser), key, nowMs)
         IN IF signed.threw THEN Refused(saved, 500, "Error during signup")
            ELSE [store |-> saved, status |-> 201, message |-> "User created successfully",
                  token |-> signed.token, user |-> userObject(id, savedUser)]

\* POST /user with body {email, password}, from request to response; id is
\* the ObjectId a new document gets.
postUser(store, id, body, randomBytes, key, nowMs) ==
    LET found == postUserFind(store, body)
    IN IF found.status # Unanswered THEN found
       ELSE postUserSave(store, id, body, randomBytes, key, nowMs)

\* findByIdAndUpdate(id, updates): a direct update of the stored document, no
\* save hook; keys whose value is undefined are dropped from the update; the
\* unique index on email rejects a duplicate.
findByIdAndUpdate(store, id, updates) ==
    LET found == FindById(store, id)
        email == IF updates.email = Absent THEN found.doc.email ELSE updates.email
        password == IF updates.password = Undefined THEN found.doc.password
                    ELSE updates.password
    IN IF found.threw THEN [threw |-> TRUE, found |-> FALSE, store |-> store]
       ELSE IF ~found.doc.exists THEN [threw |-> FALSE, found |-> FALSE, store |-> store]
       ELSE IF FindByEmail(store, email) \ {id} # {}
       THEN [threw |-> TRUE, found |-> FALSE, store |-> store]
       ELSE [threw |-> FALSE, found |-> TRUE,
             store |-> [store EXCEPT ![id].email = email, ![id].password = password]]

PutOutcome(r) ==
    IF r.threw THEN Outcome(r.store, 500, "Error updating user")
    ELSE IF ~r.found THEN Outcome(r.store, 404, "User not found")
    ELSE Outcome(r.store, 200, "User updated successfully")

\* PUT /user/:id, first copy: the password is part of the update only when
\* it is a non-empty value.
putUser(store, id, body) ==
    LET password == IF Truthy(body.password) /\ Trim(body.password) # <<>>
                    THEN body.password ELSE Undefined
    IN PutOutcome(findByIdAndUpdate(store, id, [email |-> body.email, password |-> password]))

\* PUT /user/:id, second copy: every body field is part of the update.
putUserSecond(store, id, body) ==
    PutOutcome(findByIdAndUpdate(store, id, [email |-> body.email, password |-> body.password]))

\* document.save() of a loaded document after one path was set.
saveWith(store, id, doc, path, value, randomBytes) ==
    [store EXCEPT ![id] = preSave([doc EXCEPT ![path] = value],
                                  ModifiedBy(doc, path, value), randomBytes)]

\* DELETE /user/:id/avatar
deleteAvatar(store, id, randomBytes) ==
    LET found == FindById(store, id)
    IN IF found.threw THEN Outcome(store, 500, "Error removing avatar")
       ELSE IF ~found.doc.exists THEN Outcome(store, 404, "User not found")
       ELSE Outcome(saveWith(store, id, found.doc, "avatar", "", randomBytes),
                    200, "Avatar removed")

\* POST /user/:id/avatar; hasFile: the request carries an image.
postAvatar(store, id, hasFile, randomBytes) ==
    LET found == FindById(store, id)
    IN IF ~hasFile THEN Outcome(store, 400, "No file uploaded")
       ELSE IF found.threw THEN Outcome(store, 500, "Error uploading avatar")
       ELSE IF ~found.doc.exists THEN Outcome(store, 404, "User not found")
       ELSE Outcome(saveWith(store, id, found.doc, "avatar", "user_" \o id \o ".png",
                             randomBytes),
                    200, "Avatar uploaded successfully")

\* DELETE /user/:id
deleteUser(store, id) ==
    LET found == FindById(store, id)
    IN IF found.threw THEN Outcome(store, 500, "Error deleting user")
       ELSE IF ~found.doc.exists THEN Outcome(store, 404, "User not found")
       ELSE Outcome([store EXCEPT ![id] = NoUser], 200, "User deleted successfully")

\* A signin that looks the user up and signs without comparing the password.
signinNoPasswordCheck(store, body, key, nowMs) ==
    IF body.email = Absent \/ ~Truthy(body.password) \/ FindByEmail(store, body.email) = {}
    THEN [store |-> store, status |-> 400, message |-> "refused",
          token |-> EmptyToken, user |-> NoPayload]
    ELSE LET id == CHOOSE i \in FindByEmail(store, body.email) : TRUE
         IN [store |-> store, status |-> 200, message |-> "signed in",
             token |-> generateAccessToken(userObject(id, store[id]), key, nowMs).token,
             user |-> userObject(id, store[id])]

\* POST /auth/signin with body {email, password}: the store, the status and,
\* on 200, the token and the userObject of the response.
signin(store, body, key, nowMs) ==
    IF body.email = Absent \/ ~Truthy(body.password)
    THEN Refused(store, 400, "Email and password are required")
    ELSE IF FindByEmail(store, body.email) = {}
    THEN Refused(store, 400, "This account does not exist")
    ELSE LET id == CHOOSE i \in FindByEmail(store, body.email) : TRUE
             valid == verifyPassword(body.password, store[id].password)
             signed == generateAccessToken(userObject(id, store[id]), key, nowMs)
         IN IF valid = "throw" THEN Refused(store, 500, "Error signing in")
            ELSE IF valid = "false" THEN Refused(store, 400, "Email or password is incorrect")
            ELSE IF signed.threw THEN Refused(store, 500, "Error signing in")
            ELSE [store |-> store, status |-> 200, message |-> "signed in",
                  token |-> signed.token, user |-> userObject(id, store[id])]

\* A change-password that saves the new password without comparing the old one.
changePasswordNoOldCheck(store, header, body, key, nowMs, randomBytes) ==
    LET v == jwtVerify(TokenOf(header), key, nowMs)
        userId == v.decoded.user.id
    IN IF ~header.present \/ ~Truthy(body.oldPassword) \/ ~Truthy(body.newPassword)
          \/ v.err # "none" \/ userId \notin DOMAIN store
       THEN Outcome(store, 401, "refused")
       ELSE IF ~store[userId].exists THEN Outcome(store, 404, "User not found")
       ELSE Outcome([store EXCEPT ![userId].password =
                                     hashPassword(body.newPassword, randomBytes)],
                    200, "Password changed successfully")

\* A change-password that sets the new password on the document first and
\* answers 400 for a wrong old password after it was saved.
changePasswordSavesFirst(store, header, body, key, nowMs, randomBytes) ==
    LET v == jwtVerify(TokenOf(header), key, nowMs)
        userId == v.decoded.user.id
    IN IF ~header.present \/ ~Truthy(body.oldPassword) \/ ~Truthy(body.newPassword)
          \/ v.err # "none" \/ userId \notin DOMAIN store
       THEN Outcome(store, 401, "refused")
       ELSE IF ~store[userId].exists THEN Outcome(store, 404, "User not found")
       ELSE Outcome([store EXCEPT ![userId].password =
                                     hashPassword(body.newPassword, randomBytes)],
                    IF verifyPassword(body.oldPassword, store[userId].password) = "true"
                    THEN 200 ELSE 400,
                    "saved")

\* POST /auth/change-password with an Authorization header and body
\* {oldPassword, newPassword}
changePassword(store, header, body, key, nowMs, randomBytes) ==
    IF ~header.present THEN Outcome(store, 401, "Authorization header missing")
    ELSE IF TokenOf(header) = EmptyToken THEN Outcome(store, 401, "Token missing")
    ELSE IF ~Truthy(body.oldPassword) \/ ~Truthy(body.newPassword)
    THEN Outcome(store, 400, "Old password and new password are required")
    ELSE LET v == jwtVerify(TokenOf(header), key, nowMs)
             userId == v.decoded.user.id
             found == FindById(store, userId)
             valid == verifyPassword(body.oldPassword, found.doc.password)
         IN IF v.err # "none" THEN Outcome(store, 500, "Error changing password")
            ELSE IF userId = Absent THEN Outcome(store, 401, "Invalid token payload")
            ELSE IF found.threw THEN Outcome(store, 500, "Error changing password")
            ELSE IF ~found.doc.exists THEN Outcome(store, 404, "User not found")
            ELSE IF valid = "throw" THEN Outcome(store, 500, "Error changing password")
            ELSE IF valid = "false" THEN Outcome(store, 400, "Old password is incorrect")
            ELSE Outcome(saveWith(store, userId, found.doc, "password", body.newPassword,
                                  randomBytes),
                         200, "Password changed successfully")

-----------------------------------------------------------------------------
(* models/jobApplication.js and the /job-application routes *)

\* The ObjectIds MongoDB gives new job applications, in order of creation.
JobIdPool == <<"j1", "j2", "j3">>

JobIds == { JobIdPool[i] : i \in 1..MaxJobs }

\* The status enum of the schema.
StatusEnum == { "applied", "interviewing", "offer", "rejected" }

\* The required fields of a job application.
NoJob == [exists |-> FALSE, user |-> "", company |-> "", position |-> "",
          location |-> "", status |-> "", dateApplied |-> ""]

\* JavaScript truthiness of a body field: defined and not ''.
Given(v) == v # Absent /\ v # ""

\* A job application with the id is stored.
Stored(jobStore, id) == id \in DOMAIN jobStore /\ jobStore[id].exists

\* new JobApplication({...}) / the update object, from the request body.
JobDocument(body, dateApplied) ==
    [exists |-> TRUE, user |-> body.user, company |-> body.company,
     position |-> body.position, location |-> body.location,
     status |-> body.status, dateApplied |-> dateApplied]

\* The store with the document under the id.
InsertJob(jobStore, id, doc) == (id :> doc) @@ jobStore

\* A POST /job-application that does not look at dateApplied before saving:
\* save() then fails on the required dateApplied.
postJobNoDateCheck(jobStore, id, body) ==
    IF ~Given(body.company) \/ ~Given(body.position) \/ ~Given(body.location)
       \/ ~Given(body.status) \/ ~Given(body.user)
    THEN Outcome(jobStore, 400, "Company, position, location, status are required")
    ELSE IF body.user = MalformedId \/ body.status \notin StatusEnum
            \/ ~Given(body.dateApplied)
    THEN Outcome(jobStore, 500, "Error creating job application")
    ELSE Outcome(InsertJob(jobStore, id, JobDocument(body, body.dateApplied)),
                 201, "Job application created successfully")

\* POST /job-application with body {user, company, position, location,
\* status, dateApplied}; id is the ObjectId a new document gets. save() runs
\* the schema validators: user must cast to an ObjectId and status must be in
\* the enum.
postJob(jobStore, id, body) ==
    IF ~Given(body.company) \/ ~Given(body.position) \/ ~Given(body.location)
       \/ ~Given(body.status) \/ ~Given(body.user) \/ ~Given(body.dateApplied)
    THEN Outcome(jobStore, 400, "Company, position, location, status are required")
    ELSE IF body.user = MalformedId \/ body.status \notin StatusEnum
    THEN Outcome(jobStore, 500, "Error creating job application")
    ELSE Outcome(InsertJob(jobStore, id, JobDocument(body, body.dateApplied)),
                 201, "Job application created successfully")

\* PUT /job-application/:id: dateApplied is not among the fields checked;
\* findByIdAndUpdate casts the id and the update (a CastError is answered 500)
\* and runs no validator, so status is stored as sent; an undefined
\* dateApplied is dropped from the update and the stored one stays.
putJob(jobStore, id, body) ==
    IF ~Given(body.company) \/ ~Given(body.position) \/ ~Given(body.location)
       \/ ~Given(body.status) \/ ~Given(body.user)
    THEN Outcome(jobStore, 400,
                 "Company, position, location, date applied, status and user are required")
    ELSE IF id = MalformedId \/ body.user = MalformedId
    THEN Outcome(jobStore, 500, "Error updating job application")
    ELSE IF ~Stored(jobStore, id)
    THEN Outcome(jobStore, 404, "Job application not found")
    ELSE LET dateApplied == IF Given(body.dateApplied) THEN body.dateApplied
                            ELSE jobStore[id].dateApplied
         IN Outcome([jobStore EXCEPT ![id] = JobDocument(body, dateApplied)],
                    200, "Job application updated successfully")

\* A DELETE /job-application/:id that answers 404 when it deleted nothing.
deleteJobOrNotFound(jobStore, id) ==
    IF id = MalformedId THEN Outcome(jobStore, 500, "Error deleting job application")
    ELSE IF Stored(jobStore, id)
    THEN Outcome([jobStore EXCEPT ![id] = NoJob], 200, "Job application deleted successfully")
    ELSE Outcome(jobStore, 404, "Job application not found")

\* DELETE /job-application/:id: findByIdAndDelete, then 200 whether or not a
\* document was found; an id that is no ObjectId is a CastError.
deleteJob(jobStore, id) ==
    IF id = MalformedId THEN Outcome(jobStore, 500, "Error deleting job application")
    ELSE IF id \in DOMAIN jobStore
    THEN Outcome([jobStore EXCEPT ![id] = NoJob], 200, "Job application deleted successfully")
    ELSE Outcome(jobStore, 200, "Job application deleted successfully")

-----------------------------------------------------------------------------
(* SpecHash: hashPassword and verifyPassword applied to bounded inputs *)

\* The secrets (plaintext passwords) of the model.
Secrets == { <<"p">>, <<"p", "$", "q">> }

\* Stored strings that hashPassword did not produce: no separator, non-hex
\* content, a salt that is not hex together with the key derived from it, and
\* well-formed hashes with a second separator after them.
MalformedInputs ==
    LET good == { hashPassword(<<"p">>, rb) : rb \in RandomBytes(SaltBytes) }
    IN { <<>>, <<"$">>, <<"p", "q">>, <<"p", "$", "q">>, <<"a", "b", "$", "c", "d">>,
         ToHex([i \in 1..SaltBytes |-> 0]) }
       \cup { Join(<<salt, ToHex(pbkdf2Sync(<<"p">>, salt, Iterations, KeyLen))>>, "$") :
                 salt \in { <<>>, <<"p", "q">> } }
       \cup { g \o <<"$", "q">> : g \in good }

NoCall == [called |-> FALSE, secret |-> <<>>, stored |-> <<>>, result |-> "none"]

NoMint == [made |-> FALSE, token |-> Garbage, payload |-> [id |-> Absent], at |-> 0]

NoHeader == [present |-> FALSE, words |-> <<>>]

\* The body of a request that is not for /job-application.
NoJobBody == [user |-> Absent, company |-> Absent, position |-> Absent,
              location |-> Absent, status |-> Absent, dateApplied |-> Absent]

\* The record of a request: its kind and instant, the header and token it
\* presented, the user id, email and passwords it named, the response, and
\* the token and userObject the response carried.
NoRequest == [kind |-> "none", header |-> NoHeader, token |-> Garbage, at |-> 0,
              id |-> Absent, email |-> Absent, job |-> NoJobBody,
              password |-> Undefined, newPassword |-> Undefined,
              response |-> [status |-> 0, message |-> "", error |-> "none",
                            decoded |-> NoDecoded],
              issued |-> EmptyToken, user |-> NoPayload]

\* The key the server is configured with.
ServerKey == "k1"

TokenIdle ==
    /\ now = 0
    /\ ticks = 0
    /\ secretKey = ServerKey
    /\ minted = NoMint
    /\ tcall = NoRequest

NoResponse == [kind |-> "none", status |-> 0, carriesPassword |-> FALSE]

StoreIdle ==
    /\ users = [id \in Ids |-> NoUser]
    /\ created = 0
    /\ resp = NoResponse
    /\ jobs = [id \in JobIds |-> NoJob]
    /\ pending = <<>>

InitHash ==
    /\ derived = <<>>
    /\ vcall = NoCall
    /\ TokenIdle
    /\ StoreIdle

\* One call of Utils.hashPassword, with the bytes crypto.randomBytes drew.
HashCall ==
    /\ Len(derived) < MaxCalls
    /\ \E s \in Secrets, rb \in RandomBytes(SaltBytes) :
          derived' = Append(derived,
                        [secret |-> s, randomBytes |-> rb, out |-> hashPassword(s, rb)])
    /\ UNCHANGED <<vcall, tokenVars, storeVars>>

\* One call of Utils.verifyPassword on a stored hash, a malformed string or null.
VerifyCall ==
    /\ \E s \in Secrets,
          o \in MalformedInputs \cup { derived[i].out : i \in 1..Len(derived) } \cup {Null} :
          vcall' = [called |-> TRUE, secret |-> s, stored |-> o,
                    result |-> verifyPassword(s, o)]
    /\ UNCHANGED <<derived, tokenVars, storeVars>>

NextHash == HashCall \/ VerifyCall

SpecHash == InitHash /\ [][NextHash]_vars

\* The salts verifyPassword can extract from the strings of the model.
SaltDomain ==
    { At(Split(o, "$"), 0) :
        o \in MalformedInputs
              \cup { hashPassword(s, rb) : s \in Secrets, rb \in RandomBytes(SaltBytes) } }

\* The stand-in for PBKDF2 has no collision on the (secret, salt) pairs of the model.
KdfCollisionFree ==
    \A s1 \in Secrets, s2 \in Secrets, t1 \in SaltDomain, t2 \in SaltDomain :
        pbkdf2Sync(s1, t1, Iterations, KeyLen) = pbkdf2Sync(s2, t2, Iterations, KeyLen)
            => (s1 = s2 /\ t1 = t2)

\* The number of occurrences of character c in string s.
Count(s, c) == Cardinality({ i \in 1..Len(s) : s[i] = c })

IsHex(s) == \A i \in 1..Len(s) : s[i] \in HexChars

-----------------------------------------------------------------------------
(* Claims about the password hasher *)

\* C1: verifyPassword(S, hashPassword(S)) is true for every secret S and
\* every salt hashPassword drew.
C1_VerifyAcceptsOwnHash ==
    \A i \in 1..Len(derived) :
        (vcall.called /\ vcall.stored = derived[i].out /\ vcall.secret = derived[i].secret)
            => vcall.result = "true"

C1_Witness ==
    /\ vcall.called
    /\ vcall.result = "true"
    /\ \E i \in 1..Len(derived) :
          /\ vcall.stored = derived[i].out
          /\ vcall.secret = derived[i].secret
          /\ derived[i].randomBytes[1] # 0

\* C2: for secrets S1 # S2, verifyPassword(S1, hashPassword(S2)) is false,
\* the key-derivation function having no collision on (secret, salt).
C2_VerifyRejectsOtherSecret ==
    /\ KdfCollisionFree
    /\ \A i \in 1..Len(derived) :
          (vcall.called /\ vcall.stored = derived[i].out /\ vcall.secret # derived[i].secret)
              => vcall.result = "false"

C2_Witness ==
    /\ vcall.called
    /\ vcall.result = "false"
    /\ \E i \in 1..Len(derived) :
          vcall.stored = derived[i].out /\ vcall.secret # derived[i].secret

\* The salt part of a stored hash, as verifyPassword extracts it.
SaltOf(stored) == At(Split(stored, "$"), 0)

\* C4, as claimed: every hashPassword call draws a salt no other call drew, so
\* two calls on the same secret return different stored hashes.
C4_SaltNeverReused ==
    \A i \in 1..Len(derived), j \in 1..Len(derived) :
        i < j =>
            /\ SaltOf(derived[i].out) # SaltOf(derived[j].out)
            /\ derived[i].out # derived[j].out

\* C4, amended: the salt of a stored hash is the hex text of the bytes
\* crypto.randomBytes drew in that call and of nothing else; two calls on the
\* same secret return different stored hashes exactly when their draws differ;
\* every stored hash verifies against its secret.
C4_SaltIsTheDraw ==
    \A i \in 1..Len(derived), j \in 1..Len(derived) :
        /\ SaltOf(derived[i].out) = ToHex(derived[i].randomBytes)
        /\ verifyPassword(derived[i].secret, derived[i].out) = "true"
        /\ derived[i].secret = derived[j].secret =>
              ((derived[i].out # derived[j].out)
                  <=> (derived[i].randomBytes # derived[j].randomBytes))

C4_Witness ==
    /\ Len(derived) >= 2
    /\ derived[1].secret = derived[2].secret
    /\ derived[1].randomBytes # derived[2].randomBytes
    /\ derived[1].out # derived[2].out

\* A stored string is malformed when it has no '$' or a character that is
\* neither '$' nor a lowercase hex digit.
Malformed(s) ==
    \/ Count(s, "$") = 0
    \/ \E i \in 1..Len(s) : s[i] # "$" /\ s[i] \notin HexChars

\* C7: for every secret and every malformed stored string, verifyPassword
\* returns false and does not throw.
C7_MalformedRejected ==
    (vcall.called /\ IsString(vcall.stored) /\ Malformed(vcall.stored))
        => vcall.result = "false"

\* C8: verifyPassword splits the stored string at its first '$' into salt and
\* expectedHash (everything after that '$') and returns true exactly when the
\* key derived from (secret, salt) equals expectedHash, for every stored string.
C8_SplitAtFirstSeparator ==
    (vcall.called /\ IsString(vcall.stored)) =>
        LET i == IndexOf(vcall.stored, "$")
            salt == SubSeq(vcall.stored, 1, i - 1)
            expectedHash == SubSeq(vcall.stored, i + 1, Len(vcall.stored))
        IN /\ vcall.result \in {"true", "false"}
           /\ vcall.result = "true" <=>
                 /\ i # 0
                 /\ ToHex(pbkdf2Sync(vcall.secret, salt, Iterations, KeyLen)) = expectedHash

\* C9: every value hashPassword returns is salt + '$' + derivedHash with
\* exactly one '$', a salt of 32 lowercase hex characters and a hash of 64, and
\* splitting it on '$' gives back the salt and the hash that were joined.
C9_StoredHashFormat ==
    \A k \in 1..Len(derived) :
        LET out == derived[k].out
            salt == ToHex(derived[k].randomBytes)
            hash == ToHex(pbkdf2Sync(derived[k].secret, salt, Iterations, KeyLen))
        IN /\ Len(out) = 2 * SaltBytes + 1 + 2 * KeyLen
           /\ Count(out, "$") = 1
           /\ out[2 * SaltBytes + 1] = "$"
           /\ IsHex(SubSeq(out, 1, 2 * SaltBytes))
           /\ IsHex(SubSeq(out, 2 * SaltBytes + 2, Len(out)))
           /\ Split(out, "$") = <<salt, hash>>

C9_Witness ==
    \E k \in 1..Len(derived) :
        /\ \E i \in 1..(2 * SaltBytes) : derived[k].out[i] \in {"a", "b", "c", "d", "e", "f"}
        /\ Count(derived[k].out, "$") = 1

-----------------------------------------------------------------------------
(* SpecToken: one token from mint to expiry, under a moving clock *)

\* The userObjects tokens are minted for.
Payloads ==
    { [id |-> "u1", email |-> "e1", avatar |-> ""],
      [id |-> "u2", email |-> "e2", avatar |-> "user_u2.png"] }

\* The steps of the clock, in milliseconds: half a second, one minute,
\* 29 minutes 59 seconds.
TickSteps == { 500, 60000, 1799000 }

\* The tokens a client can present: the minted one, the minted one with its
\* expiry pushed back and the signature kept, one signed with another key, and
\* a string that is no token.
TokenInputs ==
    { Garbage }
    \cup (IF minted.made
          THEN LET t == minted.token
                   late == [t.body EXCEPT !.exp = t.body.exp + ExpiresIn]
               IN { t, [t EXCEPT !.body = late],
                    [t EXCEPT !.sig = Hmac("k2", t.body)] }
          ELSE {})

\* The Authorization headers of a request: none, 'Bearer', 'Bearer ' followed
\* by a token, and 'Bearer  ' (two spaces) followed by a token.
HeaderInputs ==
    { [present |-> FALSE, words |-> <<>>], [present |-> TRUE, words |-> <<"Bearer">>] }
    \cup { [present |-> TRUE, words |-> <<"Bearer", t>>] : t \in TokenInputs }
    \cup { [present |-> TRUE, words |-> <<"Bearer", EmptyToken, t>>] : t \in TokenInputs }

\* server.js: dotenv loads the environment, the routers are mounted and
\* app.listen starts the server; process.env.SECRET_KEY is not read on the way.
bootstrap(key) == "listening"

InitToken ==
    /\ derived = <<>>
    /\ vcall = NoCall
    /\ now = 0
    /\ ticks = 0
    /\ secretKey \in { key \in { ServerKey, Absent } : bootstrap(key) = "listening" }
    /\ minted = NoMint
    /\ tcall = NoRequest
    /\ StoreIdle

\* The clock moves; the request answered at the earlier instant is over.
Tick ==
    /\ ticks < MaxTicks
    /\ \E d \in TickSteps : now' = now + d
    /\ ticks' = ticks + 1
    /\ tcall' = NoRequest
    /\ UNCHANGED <<hashVars, storeVars, secretKey, minted>>

\* Utils.generateAccessToken(P) at the current instant.
Mint ==
    /\ ~minted.made
    /\ \E P \in Payloads :
          LET r == generateAccessToken(P, secretKey, now)
          IN IF r.threw
             THEN /\ tcall' = [NoRequest EXCEPT !.kind = "mint", !.at = now,
                                                !.response.status = 500]
                  /\ UNCHANGED minted
             ELSE /\ minted' = [made |-> TRUE, token |-> r.token, payload |-> P, at |-> now]
                  /\ tcall' = [NoRequest EXCEPT !.kind = "mint", !.at = now,
                                                !.token = r.token, !.response.status = 200]
    /\ UNCHANGED <<hashVars, storeVars, now, ticks, secretKey>>

\* One GET /auth/validate request.
Validate ==
    /\ \E h \in HeaderInputs :
          tcall' = [NoRequest EXCEPT !.kind = "validate", !.header = h,
                                     !.token = TokenOf(h), !.at = now,
                                     !.response = validate(h, secretKey, now)]
    /\ UNCHANGED <<hashVars, storeVars, now, ticks, secretKey, minted>>

NextToken == Tick \/ Mint \/ Validate

SpecToken == InitToken /\ [][NextToken]_vars

\* The last request validated the minted token itself.
ValidatedMinted ==
    /\ minted.made
    /\ tcall.kind = "validate"
    /\ tcall.token = minted.token

\* C5: validating a token immediately after generateAccessToken(P) produced
\* it succeeds and returns a decoded payload whose user field equals P.
C5_ValidateReturnsPayload ==
    (ValidatedMinted /\ tcall.at = minted.at) =>
        /\ tcall.response.status = 200
        /\ tcall.response.decoded.user = minted.payload

C5_Witness ==
    /\ ValidatedMinted
    /\ tcall.at = minted.at
    /\ tcall.at % 1000 # 0
    /\ tcall.response.status = 200
    /\ tcall.response.decoded.user.id = "u2"

\* C6, as claimed: a token minted at time T is accepted at every time before
\* T + 30 minutes and rejected as expired from T + 31 minutes on.
C6_ThirtyMinutesFromMint ==
    ValidatedMinted =>
        /\ tcall.at < minted.at + ExpiresIn * 1000 => tcall.response.status = 200
        /\ tcall.at >= minted.at + (ExpiresIn + 60) * 1000 =>
              (tcall.response.status = 403 /\ tcall.response.error = "jwt expired")

\* The minted token is past its expiry at the current instant.
Expired == minted.made /\ jwtVerify(minted.token, secretKey, now).err = "jwt expired"

\* C6, amended: expiry is counted in whole seconds of the clock. A token
\* minted at T is accepted exactly while the clock's whole second is below
\* floor(T) + 1800 s, and is rejected as expired from then on, so it is
\* accepted up to T + 29 min 59 s and rejected at T + 30 min, at T + 31 min
\* and later; once expired it stays expired.
C6_WholeSecondLifetime ==
    /\ [](ValidatedMinted =>
            /\ tcall.response.status = 200
                  <=> tcall.at \div 1000 < minted.at \div 1000 + ExpiresIn
            /\ tcall.response.status # 200 =>
                  (tcall.response.status = 403 /\ tcall.response.error = "jwt expired")
            /\ tcall.at <= minted.at + (ExpiresIn - 1) * 1000 => tcall.response.status = 200
            /\ tcall.at >= minted.at + ExpiresIn * 1000 => tcall.response.status = 403)
    /\ [][Expired => Expired']_vars

C6_Witness ==
    /\ ValidatedMinted
    /\ minted.at % 1000 # 0
    /\ tcall.at < minted.at + ExpiresIn * 1000
    /\ tcall.response.status = 403
    /\ tcall.response.error = "jwt expired"

\* C15: when SECRET_KEY is not configured the process aborts at start, so it
\* never answers a request: no token is asked for and none is validated
\* without a key.
C15_AbortsWithoutKey ==
    secretKey = Absent => tcall.kind = "none"

\* The header of the last validate request carries no token: there is no
\* header, or nothing follows its first space.
TokenAbsent ==
    \/ ~tcall.header.present
    \/ Len(tcall.header.words) < 2
    \/ tcall.header.words[2] = EmptyToken

\* The token of the last validate request is a three-part token signed with
\* the server's key whose expiry lies after the clock's whole second.
TokenVerifies ==
    /\ tcall.token.parts = 3
    /\ secretKey # Absent
    /\ tcall.token.sig = Hmac(secretKey, tcall.token.body)
    /\ tcall.at \div 1000 < tcall.token.body.exp

\* C14: GET /auth/validate answers 401 when there is no Authorization header
\* or no token after the header's first space, 403 when a token is present
\* but fails signature or expiry verification, and 200 only when the token
\* verifies.
C14_AbsentVersusInvalid ==
    tcall.kind = "validate" =>
        /\ TokenAbsent => tcall.response.status = 401
        /\ (~TokenAbsent /\ ~TokenVerifies) => tcall.response.status = 403
        /\ tcall.response.status = 200 <=> (~TokenAbsent /\ TokenVerifies)

C14_Witness ==
    /\ tcall.kind = "validate"
    /\ minted.made
    /\ tcall.header.words = <<"Bearer", EmptyToken, minted.token>>
    /\ tcall.response.status = 401
    /\ jwtVerify(minted.token, secretKey, now).err = "none"

-----------------------------------------------------------------------------
(* Spec: the users collection under the /user and /auth requests *)

\* The password field of a signup or signin body: a secret, '' or no field.
BodyPasswords == Secrets \cup { Undefined, <<>> }

\* The password field of a PUT /user/:id body: those, or a blank.
PutPasswords == BodyPasswords \cup { <<" ">> }

BodyEmails == Emails \cup { Absent }

\* The tokens a client can hold: signed by the server just now for the
\* userObject of each id and for one without id, signed 30 minutes ago, signed
\* with another key, or no token at all.
ClientTokens ==
    LET payload(i) == [id |-> i, email |-> "e1", avatar |-> ""]
    IN { generateAccessToken(payload(i), ServerKey, now).token : i \in Ids \cup {Absent} }
       \cup { generateAccessToken(payload(IdPool[1]), ServerKey,
                                  now - ExpiresIn * 1000).token,
              generateAccessToken(payload(IdPool[1]), "k2", now).token,
              Garbage }

ClientHeaders ==
    { [present |-> FALSE, words |-> <<>>], [present |-> TRUE, words |-> <<"Bearer">>] }
    \cup { [present |-> TRUE, words |-> <<"Bearer", t>>] : t \in ClientTokens }

\* The request carries a password that is not blank.
Carries(password) == Truthy(password) /\ Trim(password) # <<>>

Respond(kind, o, carries) ==
    /\ users' = o.store
    /\ resp' = [kind |-> kind, status |-> o.status, carriesPassword |-> carries]

Init ==
    /\ StoreIdle
    /\ TokenIdle
    /\ derived = <<>>
    /\ vcall = NoCall

Signup ==
    /\ created < MaxUsers
    /\ \E email \in BodyEmails, password \in BodyPasswords, rb \in RandomBytes(SaltBytes) :
          LET id == IdPool[created + 1]
              o == postUser(users, id, [email |-> email, password |-> password],
                            rb, secretKey, now)
          IN /\ Respond("signup", o, Carries(password))
             /\ created' = IF o.store[id].exists THEN created + 1 ELSE created
    /\ UNCHANGED <<jobs, pending, hashVars, tokenVars>>

PutUser ==
    /\ \E id \in Ids \cup {MalformedId}, email \in BodyEmails, password \in PutPasswords :
          Respond("put", putUser(users, id, [email |-> email, password |-> password]),
                  Carries(password))
    /\ UNCHANGED <<created, jobs, pending, hashVars, tokenVars>>

PutUserSecond ==
    /\ \E id \in Ids \cup {MalformedId}, email \in BodyEmails, password \in PutPasswords :
          Respond("put", putUserSecond(users, id, [email |-> email, password |-> password]),
                  Carries(password))
    /\ UNCHANGED <<created, jobs, pending, hashVars, tokenVars>>

AvatarUpload ==
    /\ \E id \in Ids \cup {MalformedId}, hasFile \in BOOLEAN, rb \in RandomBytes(SaltBytes) :
          Respond("avatar-upload", postAvatar(users, id, hasFile, rb), FALSE)
    /\ UNCHANGED <<created, jobs, pending, hashVars, tokenVars>>

AvatarRemove ==
    /\ \E id \in Ids \cup {MalformedId}, rb \in RandomBytes(SaltBytes) :
          Respond("avatar-remove", deleteAvatar(users, id, rb), FALSE)
    /\ UNCHANGED <<created, jobs, pending, hashVars, tokenVars>>

DeleteUser ==
    /\ \E id \in Ids \cup {MalformedId} :
          Respond("delete", deleteUser(users, id), FALSE)
    /\ UNCHANGED <<created, jobs, pending, hashVars, tokenVars>>

Signin ==
    /\ \E email \in BodyEmails, password \in BodyPasswords :
          Respond("signin", signin(users, [email |-> email, password |-> password],
                                   secretKey, now), FALSE)
    /\ UNCHANGED <<created, jobs, pending, hashVars, tokenVars>>

ChangePassword ==
    /\ \E h \in ClientHeaders, old \in Secrets \cup {Undefined},
          new \in Secrets \cup {Undefined}, rb \in RandomBytes(SaltBytes) :
          LET o == changePassword(users, h, [oldPassword |-> old, newPassword |-> new],
                                  secretKey, now, rb)
          IN Respond("change-password", o, o.status = 200)
    /\ UNCHANGED <<created, jobs, pending, hashVars, tokenVars>>

ValidateRequest ==
    /\ \E h \in ClientHeaders :
          resp' = [kind |-> "validate", status |-> validate(h, secretKey, now).status,
                   carriesPassword |-> FALSE]
    /\ UNCHANGED <<users, created, jobs, pending, hashVars, tokenVars>>

Next ==
    \/ Signup
    \/ PutUser
    \/ PutUserSecond
    \/ AvatarUpload
    \/ AvatarRemove
    \/ DeleteUser
    \/ Signin
    \/ ChangePassword
    \/ ValidateRequest

Spec == Init /\ [][Next]_vars

\* Every value hashPassword can return for a secret of the model.
StoredHashes ==
    { hashPassword(s, rb) : s \in Secrets, rb \in RandomBytes(SaltBytes) }

\* C3: after any sequence of POST /user, POST /auth/change-password,
\* PUT /user/:id and avatar requests, the password field of every stored user
\* is a Stored Hash produced by hashPassword, never a plaintext password of a
\* request.
C3_OnlyHashesStored ==
    \A id \in Ids :
        users[id].exists =>
            /\ users[id].password \in StoredHashes
            /\ users[id].password \notin PutPasswords

\* C10: a stored password field changes only through a re-derivation
\* triggered by a password change; every request that sets no new password
\* leaves it unchanged.
C10_ChangesOnlyByRederivation ==
    [][\A id \in Ids :
          (users[id].exists /\ users'[id].exists
           /\ users'[id].password # users[id].password)
              => /\ resp'.carriesPassword
                 /\ resp'.kind \in {"put", "change-password"}
                 /\ users'[id].password \in StoredHashes]_vars

-----------------------------------------------------------------------------
(* SpecSession: a client that signs in, holds its token and keeps using    *)
(* it while the stores change under it and the clock moves                  *)

\* How often the clock moves in one behaviour of SpecSession.
MaxAdvances == 2

\* The step of the session clock, in milliseconds: 15 minutes.
AdvanceStep == 900000

\* The salt drawn in a session (salts are the subject of SpecHash).
SessionDraw == CHOOSE rb \in RandomBytes(SaltBytes) : rb[1] # 0

\* The new password of a PUT /user/:id body.
PutSecret == <<"p", "$", "q">>

\* The body of a PUT /user/:id request: a new password, or a new email.
PutBodies ==
    { [email |-> Absent, password |-> PutSecret],
      [email |-> "e2", password |-> Undefined] }

\* The body of a POST /auth/change-password request.
ChangeBodies ==
    { [oldPassword |-> <<"p">>, newPassword |-> <<"p", "$", "q">>],
      [oldPassword |-> <<"p", "$", "q">>, newPassword |-> <<"p">>],
      [oldPassword |-> <<"p">>, newPassword |-> Undefined] }

\* The body of a POST /job-application request: complete, without company,
\* and with a status outside the enum.
JobBodies ==
    { [user |-> "u1", company |-> "acme", position |-> "dev", location |-> "x",
       status |-> "applied", dateApplied |-> "d1"],
      [user |-> "u1", company |-> "", position |-> "dev", location |-> "x",
       status |-> "applied", dateApplied |-> "d1"],
      [user |-> "u1", company |-> "acme", position |-> "dev", location |-> "x",
       status |-> "archived", dateApplied |-> "d1"] }

\* The Authorization headers of the session's client: the token it holds, or
\* a string that is no token.
SessionHeaders ==
    { [present |-> TRUE, words |-> <<"Bearer", t>>] :
        t \in {Garbage} \cup (IF minted.made THEN {minted.token} ELSE {}) }

\* The response part of a request record, from a handler's outcome.
Answered(o) ==
    [status |-> o.status, message |-> o.message, error |-> "none", decoded |-> NoDecoded]

InitSession ==
    /\ derived = <<>>
    /\ vcall = NoCall
    /\ TokenIdle
    /\ StoreIdle

\* The clock moves.
Advance ==
    /\ ticks < MaxAdvances
    /\ now' = now + AdvanceStep
    /\ ticks' = ticks + 1
    /\ tcall' = NoRequest
    /\ UNCHANGED <<hashVars, storeVars, secretKey, minted>>

\* POST /user for the session's user.
SessionSignup ==
    /\ created < MaxUsers
    /\ LET id == IdPool[created + 1]
           o == postUser(users, id, [email |-> "e1", password |-> <<"p">>],
                         SessionDraw, secretKey, now)
       IN /\ users' = o.store
          /\ created' = IF o.store[id].exists THEN created + 1 ELSE created
          /\ tcall' = [NoRequest EXCEPT !.kind = "signup", !.at = now, !.id = id,
                                         !.email = "e1", !.newPassword = <<"p">>,
                                         !.response = Answered(o)]
    /\ UNCHANGED <<resp, jobs, pending, hashVars, now, ticks, secretKey, minted>>

\* POST /auth/signin; the client keeps the first token it is given.
SessionSignin ==
    /\ \E email \in Emails, password \in Secrets :
          LET o == signin(users, [email |-> email, password |-> password], secretKey, now)
          IN /\ minted' = IF o.status = 200 /\ ~minted.made
                          THEN [made |-> TRUE, token |-> o.token, payload |-> o.user,
                                at |-> now]
                          ELSE minted
             /\ tcall' = [NoRequest EXCEPT !.kind = "signin", !.at = now,
                                            !.email = email, !.password = password,
                                            !.response = Answered(o),
                                            !.issued = o.token, !.user = o.user]
    /\ UNCHANGED <<storeVars, hashVars, now, ticks, secretKey>>

\* PUT /user/:id with a new password
SessionPut ==
    /\ \E id \in Ids :
          LET body == [email |-> Absent, password |-> PutSecret]
              o == putUser(users, id, body)
          IN /\ users' = o.store
             /\ tcall' = [NoRequest EXCEPT !.kind = "put", !.at = now, !.id = id,
                                            !.email = body.email,
                                            !.newPassword = body.password,
                                            !.response = Answered(o)]
    /\ UNCHANGED <<created, resp, jobs, pending, hashVars, now, ticks, secretKey, minted>>

\* POST /user/:id/avatar and DELETE /user/:id/avatar
SessionAvatar ==
    /\ \E id \in Ids, upload \in BOOLEAN :
          LET o == IF upload THEN postAvatar(users, id, TRUE, SessionDraw)
                   ELSE deleteAvatar(users, id, SessionDraw)
          IN /\ users' = o.store
             /\ tcall' = [NoRequest EXCEPT !.kind = "avatar", !.at = now, !.id = id,
                                            !.response = Answered(o)]
    /\ UNCHANGED <<created, resp, jobs, pending, hashVars, now, ticks, secretKey, minted>>

\* DELETE /user/:id
SessionDelete ==
    /\ \E id \in Ids :
          LET o == deleteUser(users, id)
          IN /\ users' = o.store
             /\ tcall' = [NoRequest EXCEPT !.kind = "delete", !.at = now, !.id = id,
                                            !.response = Answered(o)]
    /\ UNCHANGED <<created, resp, jobs, pending, hashVars, now, ticks, secretKey, minted>>

\* A change-password that, on success, also replaces the signing key, so that
\* every token issued before stops verifying.
SessionChangePasswordRevoking ==
    /\ \E h \in SessionHeaders, body \in ChangeBodies :
          LET o == changePassword(users, h, body, secretKey, now, SessionDraw)
          IN /\ users' = o.store
             /\ secretKey' = IF o.status = 200 THEN "k2" ELSE secretKey
             /\ tcall' = [NoRequest EXCEPT !.kind = "change-password", !.at = now,
                                            !.header = h, !.token = TokenOf(h),
                                            !.password = body.oldPassword,
                                            !.newPassword = body.newPassword,
                                            !.response = Answered(o)]
    /\ UNCHANGED <<created, resp, jobs, pending, hashVars, now, ticks, minted>>

\* POST /auth/change-password
SessionChangePassword ==
    /\ \E h \in SessionHeaders, body \in ChangeBodies :
          LET o == changePassword(users, h, body, secretKey, now, SessionDraw)
          IN /\ users' = o.store
             /\ tcall' = [NoRequest EXCEPT !.kind = "change-password", !.at = now,
                                            !.header = h, !.token = TokenOf(h),
                                            !.password = body.oldPassword,
                                            !.newPassword = body.newPassword,
                                            !.response = Answered(o)]
    /\ UNCHANGED <<created, resp, jobs, pending, hashVars, now, ticks, secretKey, minted>>

\* A validate that, when it rejects a token, removes the job applications.
SessionValidatePurging ==
    /\ \E h \in SessionHeaders :
          LET r == validate(h, secretKey, now)
          IN /\ tcall' = [NoRequest EXCEPT !.kind = "validate", !.header = h,
                                            !.token = TokenOf(h), !.at = now,
                                            !.response = r]
             /\ jobs' = IF r.status = 200 THEN jobs ELSE [id \in JobIds |-> NoJob]
    /\ UNCHANGED <<users, created, resp, pending, hashVars, now, ticks, secretKey, minted>>

\* GET /auth/validate
SessionValidate ==
    /\ \E h \in SessionHeaders :
          tcall' = [NoRequest EXCEPT !.kind = "validate", !.header = h,
                                     !.token = TokenOf(h), !.at = now,
                                     !.response = validate(h, secretKey, now)]
    /\ UNCHANGED <<storeVars, hashVars, now, ticks, secretKey, minted>>

\* POST /job-application
PostJob ==
    /\ \E j \in 1..MaxJobs, body \in JobBodies :
          LET o == postJob(jobs, JobIdPool[j], body)
          IN /\ ~jobs[JobIdPool[j]].exists
             /\ jobs' = o.store
             /\ tcall' = [NoRequest EXCEPT !.kind = "post-job", !.at = now,
                                            !.response = Answered(o)]
    /\ UNCHANGED <<users, created, resp, pending, hashVars, now, ticks, secretKey, minted>>

\* DELETE /job-application/:id
DeleteJob ==
    /\ \E id \in JobIds :
          LET o == deleteJob(jobs, id)
          IN /\ jobs' = o.store
             /\ tcall' = [NoRequest EXCEPT !.kind = "delete-job", !.at = now,
                                            !.response = Answered(o)]
    /\ UNCHANGED <<users, created, resp, pending, hashVars, now, ticks, secretKey, minted>>

NextSession ==
    \/ Advance
    \/ SessionSignup
    \/ SessionSignin
    \/ SessionPut
    \/ SessionAvatar
    \/ SessionDelete
    \/ SessionChangePassword
    \/ SessionValidate
    \/ PostJob
    \/ DeleteJob

SpecSession == InitSession /\ [][NextSession]_vars

\* C11: there is no revocation. A token issued by signin is accepted by
\* GET /auth/validate at every time before its own expiry, whatever happened
\* to the user record since: a successful change-password, a PUT, an avatar
\* change or the deletion of the user.
C11_NoRevocation ==
    ValidatedMinted =>
        (tcall.response.status = 200
            <=> tcall.at \div 1000 < minted.at \div 1000 + ExpiresIn)

C11_Witness ==
    /\ ValidatedMinted
    /\ tcall.response.status = 200
    /\ tcall.at > minted.at
    /\ users[minted.payload.id].exists
    /\ users[minted.payload.id].password = hashPassword(<<"p", "$", "q">>, SessionDraw)

\* C12: the payload a validation returns is the snapshot taken at mint time;
\* it equals the userObject the token was signed for, not the user record as
\* it is when the token is validated.
C12_PayloadIsSnapshot ==
    (ValidatedMinted /\ tcall.response.status = 200) =>
        tcall.response.decoded.user = minted.payload

C12_Witness ==
    /\ ValidatedMinted
    /\ tcall.response.status = 200
    /\ users[minted.payload.id].exists
    /\ minted.payload.avatar # ""
    /\ tcall.response.decoded.user
          # userObject(minted.payload.id, users[minted.payload.id])

\* C17: a GET /auth/validate request, accepted or rejected, leaves the user
\* store, the job-application store and the validity of the token issued
\* before unchanged.
C17_ValidateHasNoEffect ==
    [][tcall'.kind = "validate" =>
          /\ users' = users
          /\ created' = created
          /\ jobs' = jobs
          /\ minted' = minted
          /\ jwtVerify(minted.token, secretKey', now')
                = jwtVerify(minted.token, secretKey, now)]_vars

C17_Witness ==
    /\ tcall.kind = "validate"
    /\ tcall.response.status = 403
    /\ minted.made
    /\ jwtVerify(minted.token, secretKey, now).err = "none"
    /\ \E id \in Ids : users[id].exists
    /\ \E j \in JobIds : jobs[j].exists

-----------------------------------------------------------------------------
(* SpecAccount: accounts created, signed in to and given new passwords     *)

\* The user id in a token's payload, as its holder reads it.
PayloadId(token) ==
    IF token.parts = 3 /\ Len(token.body.user) > 0
    THEN JsonParse(token.body.user).id
    ELSE Absent

InitAccount ==
    /\ derived = <<>>
    /\ vcall = NoCall
    /\ TokenIdle
    /\ StoreIdle

\* POST /user
AccountSignup ==
    /\ created < MaxUsers
    /\ \E email \in Emails :
          LET id == IdPool[created + 1]
              o == postUser(users, id, [email |-> email, password |-> <<"p">>],
                            SessionDraw, secretKey, now)
          IN /\ users' = o.store
             /\ created' = IF o.store[id].exists THEN created + 1 ELSE created
             /\ tcall' = [NoRequest EXCEPT !.kind = "signup", !.at = now, !.id = id,
                                            !.email = email, !.newPassword = <<"p">>,
                                            !.response = Answered(o)]
    /\ UNCHANGED <<resp, jobs, pending, hashVars, now, ticks, secretKey, minted>>

\* POST /auth/signin
AccountSignin ==
    /\ \E email \in BodyEmails, password \in Secrets \cup {Undefined} :
          LET o == signin(users, [email |-> email, password |-> password], secretKey, now)
          IN tcall' = [NoRequest EXCEPT !.kind = "signin", !.at = now,
                                         !.email = email, !.password = password,
                                         !.response = Answered(o),
                                         !.issued = o.token, !.user = o.user]
    /\ UNCHANGED <<storeVars, hashVars, now, ticks, secretKey, minted>>

\* PUT /user/:id
AccountPut ==
    /\ \E id \in Ids, body \in PutBodies :
          LET o == putUser(users, id, body)
          IN /\ users' = o.store
             /\ tcall' = [NoRequest EXCEPT !.kind = "put", !.at = now, !.id = id,
                                            !.email = body.email,
                                            !.newPassword = body.password,
                                            !.response = Answered(o)]
    /\ UNCHANGED <<created, resp, jobs, pending, hashVars, now, ticks, secretKey, minted>>

\* POST /auth/change-password
AccountChangePassword ==
    /\ \E h \in ClientHeaders, body \in ChangeBodies :
          LET o == changePassword(users, h, body, secretKey, now, SessionDraw)
          IN /\ users' = o.store
             /\ tcall' = [NoRequest EXCEPT !.kind = "change-password", !.at = now,
                                            !.header = h, !.token = TokenOf(h),
                                            !.id = PayloadId(TokenOf(h)),
                                            !.password = body.oldPassword,
                                            !.newPassword = body.newPassword,
                                            !.response = Answered(o)]
    /\ UNCHANGED <<created, resp, jobs, pending, hashVars, now, ticks, secretKey, minted>>

\* GET /auth/validate
AccountValidate ==
    /\ \E h \in ClientHeaders :
          tcall' = [NoRequest EXCEPT !.kind = "validate", !.header = h,
                                     !.token = TokenOf(h), !.at = now,
                                     !.id = PayloadId(TokenOf(h)),
                                     !.response = validate(h, secretKey, now)]
    /\ UNCHANGED <<storeVars, hashVars, now, ticks, secretKey, minted>>

NextAccount ==
    \/ AccountSignup
    \/ AccountSignin
    \/ AccountPut
    \/ AccountChangePassword
    \/ AccountValidate

SpecAccount == InitAccount /\ [][NextAccount]_vars

\* C13: on GET /auth/validate and POST /auth/change-password a token that is
\* present but tampered, expired or no token at all is answered with an
\* access-denied response (401 or 403), never with a server error; a
\* change-password body without its fields may be answered 400 first.
C13_InvalidTokenDenied ==
    (tcall.kind \in {"validate", "change-password"} /\ ~TokenAbsent /\ ~TokenVerifies)
        => /\ tcall.response.status # 500
           /\ (tcall.kind = "validate" \/ Truthy(tcall.newPassword))
                 => tcall.response.status \in {401, 403}

\* The user the last request's token names.
Holder == tcall.id

\* C16: POST /auth/change-password changes the store only when the token
\* verifies and the old password verifies against the stored hash of the user
\* the token names; it then replaces that user's password by a hash of the
\* new one and leaves every other record, and that user's other fields,
\* unchanged.
C16_ChangeNeedsTokenAndOldPassword ==
    [][(tcall'.kind = "change-password" /\ users' # users) =>
          /\ TokenVerifies'
          /\ tcall'.response.status = 200
          /\ Holder' \in Ids
          /\ users[Holder'].exists
          /\ verifyPassword(tcall'.password, users[Holder'].password) = "true"
          /\ \A other \in Ids \ {Holder'} : users'[other] = users[other]
          /\ users'[Holder'] =
                [users[Holder'] EXCEPT
                    !.password = hashPassword(tcall'.newPassword, SessionDraw)]]_vars

C16_Witness ==
    /\ tcall.kind = "change-password"
    /\ tcall.response.status = 200
    /\ Holder = "u2"
    /\ users["u1"].exists
    /\ users["u1"].password # users["u2"].password

\* The credentials of the last signin request belong to a stored user.
SigninMatches ==
    /\ tcall.email # Absent
    /\ Truthy(tcall.password)
    /\ \E id \in Ids :
          /\ users[id].exists
          /\ users[id].email = tcall.email
          /\ verifyPassword(tcall.password, users[id].password) = "true"

\* C18: POST /auth/signin answers 200 with a token minted at that instant if
\* and only if the body has email and password, a user with the email exists
\* and verifyPassword accepts the password against the stored value; otherwise
\* it answers 400 with no token; the token's payload is the userObject of the
\* response, which is the stored user's.
C18_SigninOutcome ==
    tcall.kind = "signin" =>
        /\ tcall.response.status = 200 <=> SigninMatches
        /\ tcall.response.status # 200 =>
              (tcall.response.status = 400 /\ tcall.issued = EmptyToken)
        /\ tcall.response.status = 200 =>
              /\ jwtVerify(tcall.issued, secretKey, tcall.at).err = "none"
              /\ jwtVerify(tcall.issued, secretKey, tcall.at).decoded.user = tcall.user
              /\ tcall.issued.body.iat = tcall.at \div 1000
              /\ tcall.user.id \in Ids
              /\ tcall.user = userObject(tcall.user.id, users[tcall.user.id])
              /\ tcall.user.email = tcall.email

C18_Witness ==
    /\ tcall.kind = "signin"
    /\ tcall.response.status = 200
    /\ tcall.user.id = "u2"
    /\ tcall.password = <<"p", "$", "q">>

\* The last request set a user's password and was answered with success.
SetsPassword ==
    /\ tcall.kind \in {"signup", "put", "change-password"}
    /\ tcall.response.status \in {200, 201}
    /\ Truthy(tcall.newPassword)

\* What POST /auth/signin answers for a stored user's email and a password.
SigninStatus(store, id, password, key, nowMs) ==
    signin(store, [email |-> store[id].email, password |-> password], key, nowMs).status

\* C19: after a request that successfully sets a user's password to p (signup,
\* change-password, or PUT /user/:id with a password), signin with the user's
\* email and p answers 200; after a change from old to a different new
\* password signin with old answers 400; and a request that sets no password
\* leaves what signin answers for the stored password as it was.
C19_SigninAfterPasswordSet ==
    [][/\ SetsPassword' =>
             /\ SigninStatus(users', tcall'.id, tcall'.newPassword, secretKey', now') = 200
             /\ (tcall'.kind = "change-password" /\ tcall'.password # tcall'.newPassword)
                   => SigninStatus(users', tcall'.id, tcall'.password, secretKey', now') = 400
       /\ ~SetsPassword' =>
             \A id \in Ids :
                 (users[id].exists /\ users'[id].exists)
                     => users'[id].password = users[id].password]_vars

\* C20: a POST /auth/change-password that is answered with anything but 200
\* leaves the stored password of every user unchanged.
C20_RejectedChangeKeepsPasswords ==
    [][(tcall'.kind = "change-password" /\ tcall'.response.status # 200) =>
          /\ tcall'.response.status \in {400, 401, 404, 500}
          /\ \A id \in Ids : users'[id] = users[id]]_vars

C20_Witness ==
    /\ tcall.kind = "change-password"
    /\ tcall.response.status = 400
    /\ tcall.response.message = "Old password is incorrect"
    /\ tcall.password = <<"p">>
    /\ Holder \in Ids
    /\ users[Holder].password = hashPassword(<<"p", "$", "q">>, SessionDraw)

\* ---------------------------------------------------------------------------
\* Concurrent requests on the user store.  POST /user awaits twice: once for
\* User.findOne and once for newUserDoc.save(); other requests run between the
\* two.  PUT /user/:id awaits one findByIdAndUpdate, which the store applies
\* as a whole.
\* ---------------------------------------------------------------------------

\* POST /user requests that may be in flight together.
MaxRequests == 2

Requests == 1..MaxRequests

\* A request slot with no request in it.
IdleRequest == [pc |-> "idle", email |-> Absent, password |-> Undefined,
                taken |-> FALSE, stored |-> FALSE,
                status |-> Unanswered, message |-> "", token |-> EmptyToken]

\* Passwords a signup sends.
RacePasswords == { Undefined, <<"p">> }

\* Requests between findOne and save.
Checked == { r \in Requests : pending[r].pc = "checked" }

\* The request of slot r as the handler received it.
RaceBody(r) == [email |-> pending[r].email, password |-> pending[r].password]

InitRace ==
    /\ derived = <<>>
    /\ vcall = NoCall
    /\ TokenIdle
    /\ users = [id \in Ids |-> NoUser]
    /\ created = 0
    /\ resp = NoResponse
    /\ jobs = [id \in JobIds |-> NoJob]
    /\ pending = [r \in Requests |-> IdleRequest]

\* POST /user arrives and runs to the end of its findOne.
RaceFind ==
    /\ \E r \in Requests, email \in BodyEmails, password \in RacePasswords :
          LET o == postUserFind(users, [email |-> email, password |-> password])
          IN /\ pending[r].pc = "idle"
             /\ created + Cardinality(Checked) < MaxUsers
             /\ pending' = [pending EXCEPT ![r] =
                               [pc |-> IF o.status = Unanswered THEN "checked" ELSE "done",
                                email |-> email, password |-> password,
                                taken |-> FindByEmail(users, email) # {},
                                stored |-> FALSE,
                                status |-> o.status, message |-> o.message,
                                token |-> o.token]]
    /\ UNCHANGED <<users, created, resp, jobs, hashVars, tokenVars>>

\* The save of a POST /user whose findOne found no user, and its response.
RaceSave ==
    /\ \E r \in Checked :
          LET id == IdPool[created + 1]
              o == postUserSave(users, id, RaceBody(r), SessionDraw, secretKey, now)
          IN /\ users' = o.store
             /\ created' = IF o.store[id].exists THEN created + 1 ELSE created
             /\ pending' = [pending EXCEPT ![r].pc = "done",
                                           ![r].taken = FindByEmail(users, pending[r].email) # {},
                                           ![r].stored = o.store[id].exists,
                                           ![r].status = o.status,
                                           ![r].message = o.message,
                                           ![r].token = o.token]
    /\ UNCHANGED <<resp, jobs, hashVars, tokenVars>>

\* PUT /user/:id setting the email.
RacePut ==
    /\ \E id \in Ids, email \in Emails :
          LET o == putUser(users, id, [email |-> email, password |-> Undefined])
          IN Respond("put", o, FALSE)
    /\ UNCHANGED <<created, jobs, pending, hashVars, tokenVars>>

\* The response of a finished request has been sent; its slot takes the next.
RaceRetire ==
    /\ \E r \in Requests :
          /\ pending[r].pc = "done"
          /\ pending' = [pending EXCEPT ![r] = IdleRequest]
    /\ UNCHANGED <<users, created, resp, jobs, hashVars, tokenVars>>

NextRace == RaceFind \/ RaceSave \/ RacePut \/ RaceRetire

SpecRace == InitRace /\ [][NextRace]_vars

\* No two stored users have the same email.
EmailsUnique(store) ==
    \A a \in DOMAIN store, b \in DOMAIN store :
        a # b /\ store[a].exists /\ store[b].exists => store[a].email # store[b].email

\* C21: under every interleaving of the findOne and save steps of concurrent
\* POST /user requests with PUT /user/:id requests that set the email, no two
\* stored users have the same email.
C21_EmailsUnique == EmailsUnique(users)

\* Two signups for one email both passed findOne; one was stored, the save of
\* the other was rejected, and a single user holds the email.
C21_Witness ==
    \E r \in Requests, l \in Requests :
        /\ r # l
        /\ pending[r].pc = "done" /\ pending[l].pc = "done"
        /\ pending[r].email = pending[l].email
        /\ pending[r].stored /\ ~pending[l].stored
        /\ pending[l].taken /\ pending[l].status = 500
        /\ Cardinality(FindByEmail(users, pending[r].email)) = 1

\* C22: every POST /user answered while a stored user has its email is
\* answered 409 "Email is already in use", stores no user and carries no
\* token; the request that loses a race of two signups for one email included.
C22_DuplicateAnswered409 ==
    \A r \in Requests :
        pending[r].pc = "done" /\ pending[r].taken /\ Truthy(pending[r].password)
            => /\ pending[r].status = 409
               /\ pending[r].message = "Email is already in use"
               /\ ~pending[r].stored
               /\ pending[r].token = EmptyToken

\* The part of C22 the code keeps: a request answered while a stored user has
\* its email stores no user and carries no token, and is answered 409 when
\* findOne saw that user, 500 when only the save did.
C22_DuplicateStoresNothing ==
    \A r \in Requests :
        pending[r].pc = "done" /\ pending[r].taken /\ Truthy(pending[r].password)
            => /\ pending[r].status \in {409, 500}
               /\ ~pending[r].stored
               /\ pending[r].token = EmptyToken

\* A signup for a taken email that findOne refused.
C22_Sequential ==
    \E r \in Requests :
        pending[r].pc = "done" /\ pending[r].taken /\ pending[r].status = 409

\* ---------------------------------------------------------------------------
\* The /job-application routes on a store of several applications.  The
\* domain of jobs is the set of ObjectIds given out so far: an id is never
\* given twice, and a deleted application leaves its id behind.
\* ---------------------------------------------------------------------------

\* Job applications created in one behaviour.
MaxApplications == 2

\* The ids a client names in /job-application/:id.
JobSlots == { JobIdPool[i] : i \in 1..MaxApplications }

JobFields == { "user", "company", "position", "location", "status", "dateApplied" }

\* A body with every required field.
CompleteJob == [user |-> "u1", company |-> "acme", position |-> "dev",
                location |-> "x", status |-> "applied", dateApplied |-> "d1"]

\* A required field of the body is missing or empty.
Incomplete(body) == \E f \in JobFields : ~Given(body[f])

\* The bodies of POST and PUT requests: complete ones, one with a status
\* outside the enum, one whose user is no ObjectId, and bodies with one field
\* missing or empty.
JobsBodies ==
    { CompleteJob,
      [CompleteJob EXCEPT !.company = "bolt"],
      [CompleteJob EXCEPT !.status = "offer"],
      [CompleteJob EXCEPT !.status = "archived"],
      [CompleteJob EXCEPT !.dateApplied = "d2"],
      [CompleteJob EXCEPT !.user = MalformedId],
      [CompleteJob EXCEPT !.status = "offer", !.dateApplied = Absent] }
    \cup { [CompleteJob EXCEPT ![f] = v] : f \in JobFields, v \in { Absent, "" } }

InitJobs ==
    /\ derived = <<>>
    /\ vcall = NoCall
    /\ TokenIdle
    /\ users = [id \in Ids |-> NoUser]
    /\ created = 0
    /\ resp = NoResponse
    /\ pending = <<>>
    /\ jobs = <<>>

\* The record of a /job-application request.
JobRequest(kind, id, body, o) ==
    [NoRequest EXCEPT !.kind = kind, !.at = now, !.id = id, !.job = body,
                      !.response = Answered(o)]

\* POST /job-application
JobsPost ==
    /\ Cardinality(DOMAIN jobs) < MaxApplications
    /\ \E body \in JobsBodies :
          LET id == JobIdPool[Cardinality(DOMAIN jobs) + 1]
              o == postJob(jobs, id, body)
          IN /\ jobs' = o.store
             /\ tcall' = JobRequest("post-job", id, body, o)
    /\ UNCHANGED <<users, created, resp, pending, hashVars, now, ticks, secretKey, minted>>

\* PUT /job-application/:id
JobsPut ==
    /\ \E id \in JobSlots \cup { MalformedId }, body \in JobsBodies :
          LET o == putJob(jobs, id, body)
          IN /\ jobs' = o.store
             /\ tcall' = JobRequest("put-job", id, body, o)
    /\ UNCHANGED <<users, created, resp, pending, hashVars, now, ticks, secretKey, minted>>

\* DELETE /job-application/:id
JobsDelete ==
    /\ \E id \in JobSlots \cup { MalformedId } :
          LET o == deleteJob(jobs, id)
          IN /\ jobs' = o.store
             /\ tcall' = JobRequest("delete-job", id, NoJobBody, o)
    /\ UNCHANGED <<users, created, resp, pending, hashVars, now, ticks, secretKey, minted>>

NextJobs == JobsPost \/ JobsPut \/ JobsDelete

SpecJobs == InitJobs /\ [][NextJobs]_vars

\* C23: after any sequence of POST /job-application and
\* PUT /job-application/:id requests, the status of every stored job
\* application is one of 'applied', 'interviewing', 'offer', 'rejected'.
C23_StatusInEnum ==
    \A id \in DOMAIN jobs : jobs[id].exists => jobs[id].status \in StatusEnum

\* The part of C23 the code keeps: an application as POST stored it has a
\* status of the enum.
C23_PostedStatusInEnum ==
    tcall.kind = "post-job" /\ tcall.response.status = 201
        => jobs[tcall.id].status \in StatusEnum

\* C24: a POST /job-application in which company, position, location, status,
\* user or dateApplied is missing or empty is answered 400, and the stored
\* applications are the same after it as before.
C24_IncompletePostRefused ==
    [][tcall'.kind = "post-job" /\ Incomplete(tcall'.job)
          => /\ tcall'.response.status = 400
             /\ jobs' = jobs]_vars

\* A POST without position was answered 400 while an application was stored.
C24_Witness ==
    /\ tcall.kind = "post-job"
    /\ tcall.job.position = Absent
    /\ tcall.response.status = 400
    /\ \E id \in DOMAIN jobs : jobs[id].exists

\* C25: a PUT /job-application/:id in which company, position, location,
\* dateApplied, status or user is missing is answered 400 and leaves the
\* stored applications unchanged.
C25_IncompletePutRefused ==
    [][tcall'.kind = "put-job" /\ Incomplete(tcall'.job)
          => /\ tcall'.response.status = 400
             /\ jobs' = jobs]_vars

\* The part of C25 the code keeps: a PUT without company, position, location,
\* status or user is answered 400 and changes nothing, and every stored
\* application has a dateApplied.
C25_CheckedFieldsRefused ==
    [][tcall'.kind = "put-job"
          /\ (\E f \in JobFields \ { "dateApplied" } : ~Given(tcall'.job[f]))
          => /\ tcall'.response.status = 400
             /\ jobs' = jobs
             /\ \A id \in DOMAIN jobs' : jobs'[id].exists => Given(jobs'[id].dateApplied)]_vars

\* A PUT without dateApplied was answered 200 and changed the application.
C25_AcceptedWithoutDate ==
    /\ tcall.kind = "put-job"
    /\ tcall.job.dateApplied = Absent
    /\ tcall.response.status = 200
    /\ jobs[tcall.id].status = "offer"

\* C26: DELETE /job-application/:id with a well-formed id is answered 200
\* 'Job application deleted successfully' whether or not an application has
\* the id; after it no application with the id is stored, a second DELETE of
\* the id is answered the same and changes nothing, and every other
\* application is stored as before.
C26_DeleteIdempotent ==
    [][tcall'.kind = "delete-job" /\ tcall'.id # MalformedId
          => /\ tcall'.response.status = 200
             /\ tcall'.response.message = "Job application deleted successfully"
             /\ ~Stored(jobs', tcall'.id)
             /\ deleteJob(jobs', tcall'.id)
                  = Outcome(jobs', 200, "Job application deleted successfully")
             /\ DOMAIN jobs' = DOMAIN jobs
             /\ \A id \in DOMAIN jobs \ { tcall'.id } : jobs'[id] = jobs[id]]_vars

\* A stored application was deleted and another one is still stored.
C26_Witness ==
    /\ tcall.kind = "delete-job"
    /\ tcall.response.status = 200
    /\ tcall.id \in DOMAIN jobs /\ ~jobs[tcall.id].exists
    /\ \E id \in DOMAIN jobs : jobs[id].exists

\* A DELETE of an id no application has was answered 200.
C26_NothingToDelete ==
    /\ tcall.kind = "delete-job"
    /\ tcall.response.status = 200
    /\ tcall.id \notin DOMAIN jobs

====
